---- MODULE Spec2Model ----
(***************************************************************************)
(* Model of the POST /generate handler, generate_image, of                 *)
(* app/api/routes_generate.py: source resolution, image download, context  *)
(* analysis, prompt composition, the synthesis attempt loop with stream    *)
(* consumption, and the persistence steps.  One request is followed from   *)
(* entry to its response; every call the handler makes to a collaborator   *)
(* is appended to log, so that ordering properties are state predicates.   *)
(***************************************************************************)
EXTENDS Integers, Sequences, FiniteSets, TLC

\* ------------------------------------------------------------------------
\* Bounds of the model
\* ------------------------------------------------------------------------
MaxChunks == 4      \* longest response stream the generation service sends
MaxTime == 1        \* values int(time.time()) can take while the request runs
MaxClock == 2       \* last value of the worker's clock, which starts at 1
MaxNow == 1500      \* last value of time.time() seen by the token verification

\* ------------------------------------------------------------------------
\* Program constants
\* ------------------------------------------------------------------------
max_generation_attempts == 2
max_retries == 2
GenerationBackoff == 3
JwksRefresh == 600

None == "None"

\* an Optional[int] field left out of the request (None)
NoId == 0

\* Python truthiness: "not s" of an Optional[str] or bytes value,
\* "not n" of an Optional[int]
FalsyStr(s) == s = None \/ s = ""
FalsyInt(n) == n = NoId

\* ------------------------------------------------------------------------
\* The environment: caller, catalog rows, request bodies, error texts
\* ------------------------------------------------------------------------
Caller == "userA"
Other == "userB"

\* rows of the tiles and homes tables: row 1 is the caller's, row 2 is not
TilesTable ==
    { [id |-> 1, user_id |-> Caller, image_url |-> "tile1.jpg"],
      [id |-> 2, user_id |-> Other, image_url |-> "tile2.jpg"] }

HomesTable ==
    { [id |-> 1, user_id |-> Caller, image_url |-> "home1.jpg"],
      [id |-> 2, user_id |-> Other, image_url |-> "home2.jpg"] }

TileUrls == {None, "tileU.jpg"}
HomeUrls == {None, "homeU.jpg"}
TileIds == {NoId, 1, 2}
HomeIds == {NoId, 1, 2}
ChatIds == {NoId, 5}
\* user hints, as sequences of words; " " is white space
Hints == {<<>>, <<" ", "kitchen", " ">>}

\* the field surface: its default, and a target surface
Surfaces == {"auto", "shower"}

\* GenerateRequest
GenerateRequest ==
    { [tile_url |-> tu, home_url |-> hu, tile_id |-> ti, home_id |-> hi,
       chat_id |-> c, prompt |-> p, surface |-> s] :
        tu \in TileUrls, hu \in HomeUrls, ti \in TileIds, hi \in HomeIds,
        c \in ChatIds, p \in Hints, s \in Surfaces }

\* the requests that leave surface at its default
DefaultRequests == { b \in GenerateRequest : b.surface = "auto" }

\* the requests that give both sources as URLs, with every surface
UrlRequests ==
    { b \in GenerateRequest :
        /\ b.tile_url # None /\ b.home_url # None
        /\ b.tile_id = NoId /\ b.home_id = NoId }

\* str(e) of an exception raised by a collaborator
ErrTexts == {"err1", "err2"}

\* ------------------------------------------------------------------------
\* Responses
\* ------------------------------------------------------------------------
NoResponse == [kind |-> "none", status |-> 0, success |-> FALSE,
               error |-> <<>>, image |-> <<>>]

\* raise HTTPException(status_code=s, detail=d)
HTTPException(s, d) == [kind |-> "http", status |-> s, success |-> FALSE,
                        error |-> d, image |-> <<>>]

\* return {"success": False, "error": e}
Failure(e) == [kind |-> "json", status |-> 200, success |-> FALSE,
               error |-> e, image |-> <<>>]

\* return {"success": True, "image": row}
Success(row) == [kind |-> "json", status |-> 200, success |-> TRUE,
                 error |-> <<>>, image |-> <<row>>]

MsgMissingTile == "Missing tile source: provide either tile_url or tile_id"
MsgMissingHome == "Missing home source: provide either home_url or home_id"
MsgTileNotFound == "Tile not found or not owned by user"
MsgHomeNotFound == "Home not found or not owned by user"
MsgNoApiKey == "NANO_BANANA_API_KEY not configured on server"
MsgTileDownload == "Failed to download tile image: HTTP"
MsgHomeDownload == "Failed to download home image: HTTP"
MsgTimeout == "Image download timed out"
MsgTransport == "Failed to download images:"
MsgGenerationFailed == "Image generation failed. The AI model could not produce a valid visualization. Please try again with different images or contact support."
MsgNoOutput == "Image generation failed to produce output. Please try again."
MsgUploadFailed == "Image generated successfully but failed to upload to storage:"
MsgUrlFailed == "Image uploaded but failed to generate public URL. Please contact support."
MsgNoRecord == "Image generated but failed to save record. Please contact support."
MsgDbFailed == "Image generated but failed to save to database:"
MsgUnexpected == "An unexpected error occurred during image generation. Please try again or contact support if the issue persists."

\* the catch-all handler of generate_image
Unexpected == Failure(<<MsgUnexpected>>)

\* the catch-all answering with a server error
CatchAll_Raises(e) == HTTPException(500, <<e>>)

\* except Exception as e (lines 556-565): str(e) is logged, the answer is
\* the fixed envelope
CatchAll(e) == Unexpected

\* ------------------------------------------------------------------------
\* State
\* ------------------------------------------------------------------------
VARIABLES
    body,                 \* the request payload
    api_key,              \* os.environ.get("NANO_BANANA_API_KEY")
    pc,                   \* position of the handler
    tile_url, home_url,   \* the resolved source URLs
    tile_bytes, home_bytes,
    context,              \* the scene context
    context_text,         \* the analyzer's response text, until the prompt is composed
    attempt,              \* loop variable of call_gemini_with_retry
    generation_prompt,    \* the primary prompt
    contents,             \* the instruction text of the synthesis contents
    image_saved, data_buffer, generation_attempts,
    chunk_count,
    consumed,             \* inline data extracted from each chunk consumed
    file_name,            \* the time stamp the artifact name is built from
    files,                \* generated/ directory: set of [name, data]
    storage,              \* storage bucket: set of [name, data]
    public_url,
    rows,                 \* generated_images rows inserted
    response,             \* what the handler answered
    log,                  \* calls made to collaborators, in order
    \* one worker serving several /generate requests on its event loop
    tasks,                \* the coroutine of each request: position and locals
    running,              \* the request whose coroutine holds the thread; 0 when the loop is idle
    clock,                \* int(time.time())
    \* the record endpoints
    tiles, homes, chats, generated_images,   \* the tables, sets of rows
    answer,               \* the last call made and what it answered
    \* the token verification service
    jwks_cache,           \* _jwks_cache: keys and timestamp
    jwks_call             \* the last call of _get_jwks and what it did

\* the locals of the handler followed on its own
local_vars == <<body, api_key, pc, tile_url, home_url, tile_bytes, home_bytes,
                context, context_text, attempt, generation_prompt, contents,
                image_saved, data_buffer, generation_attempts, chunk_count,
                consumed, file_name, public_url, response, log>>

worker_vars == <<tasks, running, clock>>

record_vars == <<tiles, homes, chats, generated_images, answer>>

auth_vars == <<jwks_cache, jwks_call>>

vars == <<local_vars, files, storage, rows, worker_vars, record_vars, auth_vars>>

Ev(e, n, a) == [ev |-> e, n |-> n, arg |-> a]

\* a specification that follows one part of the program holds the state of
\* the other parts at these values
NoWorker ==
    /\ tasks = <<>>
    /\ running = 0
    /\ clock = 0

NoHandler ==
    /\ body = <<>>
    /\ api_key = None
    /\ pc = "done"
    /\ tile_url = None
    /\ home_url = None
    /\ tile_bytes = None
    /\ home_bytes = None
    /\ context = <<>>
    /\ context_text = <<>>
    /\ attempt = 0
    /\ generation_prompt = <<>>
    /\ contents = <<>>
    /\ image_saved = FALSE
    /\ data_buffer = None
    /\ generation_attempts = 0
    /\ chunk_count = 0
    /\ consumed = <<>>
    /\ file_name = 0
    /\ public_url = 0
    /\ response = <<>>
    /\ log = <<>>

NoRecords ==
    /\ tiles = {}
    /\ homes = {}
    /\ chats = {}
    /\ generated_images = {}
    /\ answer = <<>>

NoAuth ==
    /\ jwks_cache = <<>>
    /\ jwks_call = <<>>

\* the default scene context
DefaultContext ==
    [surface_type |-> "floor",
     estimated_tile_size |-> "medium",
     region_description |-> "bottom part of the image",
     lighting_condition |-> "natural"]

InitOf(requests) ==
    /\ body \in requests
    /\ api_key \in {None, "key"}
    /\ pc = "validate"
    /\ tile_url = None
    /\ home_url = None
    /\ tile_bytes = None
    /\ home_bytes = None
    /\ context = DefaultContext
    /\ context_text = <<>>
    /\ attempt = 0
    /\ generation_prompt = <<>>
    /\ contents = <<>>
    /\ image_saved = FALSE
    /\ data_buffer = None
    /\ generation_attempts = 0
    /\ chunk_count = 0
    /\ consumed = <<>>
    /\ file_name = 0
    /\ files = {}
    /\ storage = {}
    /\ public_url = 0
    /\ rows = <<>>
    /\ response = NoResponse
    /\ log = <<>>
    /\ NoWorker
    /\ NoRecords
    /\ NoAuth

Init == InitOf(DefaultRequests)

\* the handler answers r and ends
Return(r) ==
    /\ response' = r
    /\ pc' = "done"

\* ------------------------------------------------------------------------
\* Step 0.5: validate tile and home sources
\* ------------------------------------------------------------------------
\* the tile check reading the wrong field
MissingTile_WrongField(b) == FalsyStr(b.tile_url) /\ FalsyInt(b.home_id)

MissingTile(b) == FalsyStr(b.tile_url) /\ FalsyInt(b.tile_id)
MissingHome(b) == FalsyStr(b.home_url) /\ FalsyInt(b.home_id)

Validate ==
    /\ pc = "validate"
    /\ UNCHANGED <<worker_vars, record_vars, auth_vars>>
    /\ IF MissingTile(body)
         THEN Return(HTTPException(400, <<MsgMissingTile>>))
         ELSE IF MissingHome(body)
                THEN Return(HTTPException(400, <<MsgMissingHome>>))
                ELSE /\ pc' = "resolve_tile"
                     /\ response' = response
    /\ tile_url' = (IF pc' = "done" THEN tile_url ELSE body.tile_url)
    /\ home_url' = (IF pc' = "done" THEN home_url ELSE body.home_url)
    /\ UNCHANGED <<context_text, body, api_key, tile_bytes, home_bytes, context, attempt,
                   generation_prompt, contents, image_saved, data_buffer,
                   generation_attempts, chunk_count, consumed, file_name, files, storage, public_url, rows, log>>

\* ------------------------------------------------------------------------
\* Step 0.6: fetch URLs from the catalog when an id is given without a URL
\* ------------------------------------------------------------------------
\* the query without its user_id filter
Select_NoOwner(table, id, user_id) == { r \in table : r.id = id }

\* .select("image_url").eq("id", id).eq("user_id", user_id).execute().data
Select(table, id, user_id) ==
    { r \in table : r.id = id /\ r.user_id = user_id }

\* the id looked up whenever it is given
NeedsLookup_IdFirst(url, id) == ~FalsyInt(id)

\* if not tile_url and body.tile_id (line 106), if not home_url and
\* body.home_id (line 123)
NeedsLookup(url, id) == FalsyStr(url) /\ ~FalsyInt(id)

\* if not tile_res.data: raise HTTPException(status_code=404, ...)
TileNotFound == HTTPException(404, <<MsgTileNotFound>>)

\* if not home_res.data: raise HTTPException(status_code=404, ...)
HomeNotFound == HTTPException(404, <<MsgHomeNotFound>>)

ResolveTile ==
    /\ pc = "resolve_tile"
    /\ UNCHANGED <<worker_vars, record_vars, auth_vars>>
    /\ IF NeedsLookup(tile_url, body.tile_id)
         THEN \/ \* the query raises: caught by the catch-all
                 /\ Return(Unexpected)
                 /\ tile_url' = tile_url
                 /\ log' = Append(log, Ev("lookup_tile", body.tile_id, <<"raised">>))
              \/ LET data == Select(TilesTable, body.tile_id, Caller) IN
                 IF data = {}
                   THEN /\ Return(TileNotFound)
                        /\ tile_url' = tile_url
                        /\ log' = Append(log, Ev("lookup_tile", body.tile_id, <<"empty">>))
                   ELSE /\ tile_url' = (CHOOSE r \in data : TRUE).image_url
                        /\ pc' = "resolve_home"
                        /\ response' = response
                        /\ log' = Append(log, Ev("lookup_tile", body.tile_id, <<"row">>))
         ELSE /\ pc' = "resolve_home"
              /\ UNCHANGED <<tile_url, response, log>>
    /\ UNCHANGED <<context_text, body, api_key, home_url, tile_bytes, home_bytes, context,
                   attempt, generation_prompt, contents, image_saved,
                   data_buffer, generation_attempts, chunk_count, consumed,
                   file_name, files, storage, public_url, rows>>

ResolveHome ==
    /\ pc = "resolve_home"
    /\ UNCHANGED <<worker_vars, record_vars, auth_vars>>
    /\ IF NeedsLookup(home_url, body.home_id)
         THEN \/ \* the query raises: caught by the catch-all
                 /\ Return(Unexpected)
                 /\ home_url' = home_url
                 /\ log' = Append(log, Ev("lookup_home", body.home_id, <<"raised">>))
              \/ LET data == Select(HomesTable, body.home_id, Caller) IN
                 IF data = {}
                   THEN /\ Return(HomeNotFound)
                        /\ home_url' = home_url
                        /\ log' = Append(log, Ev("lookup_home", body.home_id, <<"empty">>))
                   ELSE /\ home_url' = (CHOOSE r \in data : TRUE).image_url
                        /\ pc' = "check_api_key"
                        /\ response' = response
                        /\ log' = Append(log, Ev("lookup_home", body.home_id, <<"row">>))
         ELSE /\ pc' = "check_api_key"
              /\ UNCHANGED <<home_url, response, log>>
    /\ UNCHANGED <<context_text, body, api_key, tile_url, tile_bytes, home_bytes, context,
                   attempt, generation_prompt, contents, image_saved,
                   data_buffer, generation_attempts, chunk_count, consumed,
                   file_name, files, storage, public_url, rows>>

\* ------------------------------------------------------------------------
\* Step 1: validate the API key
\* ------------------------------------------------------------------------
CheckApiKey ==
    /\ pc = "check_api_key"
    /\ UNCHANGED <<worker_vars, record_vars, auth_vars>>
    /\ IF FalsyStr(api_key)
         THEN Return(HTTPException(500, <<MsgNoApiKey>>))
         ELSE /\ pc' = "download_tile"
              /\ response' = response
    /\ UNCHANGED <<context_text, body, api_key, tile_url, home_url, tile_bytes, home_bytes,
                   context, attempt, generation_prompt, contents, image_saved,
                   data_buffer, generation_attempts, chunk_count, consumed,
                   file_name, files, storage, public_url, rows,
                   log>>

\* ------------------------------------------------------------------------
\* Step 2: download both images
\* ------------------------------------------------------------------------
\* what client.get(url) can do: answer with a status, or raise
StatusCodes == {200, 204, 302, 404, 500}
GetOutcomes == {"status", "timeout", "request_error", "other_error"}

\* the status check accepting every status below 400, and a transport error
\* taken for an empty body
DownloadFailure_Lenient(outcome, status, msg, e) ==
    CASE outcome = "status" /\ status >= 400 -> <<HTTPException(400, <<msg, ToString(status)>>)>>
      [] outcome = "status" /\ status < 400 -> <<>>
      [] outcome = "timeout" -> <<HTTPException(400, <<MsgTimeout>>)>>
      [] outcome = "request_error" -> <<>>
      [] OTHER -> <<Unexpected>>

\* the response of the handler to a failed download; <<>> when it succeeded
DownloadFailure(outcome, status, msg, e) ==
    CASE outcome = "status" /\ status # 200 -> <<HTTPException(400, <<msg, ToString(status)>>)>>
      [] outcome = "status" /\ status = 200 -> <<>>
      [] outcome = "timeout" -> <<HTTPException(400, <<MsgTimeout>>)>>
      [] outcome = "request_error" -> <<HTTPException(400, <<MsgTransport, e>>)>>
      [] OTHER -> <<Unexpected>>

DownloadTile ==
    /\ pc = "download_tile"
    /\ UNCHANGED <<worker_vars, record_vars, auth_vars>>
    /\ \E outcome \in GetOutcomes, status \in StatusCodes, e \in ErrTexts :
          /\ log' = Append(log, Ev("download_tile",
                                   IF outcome = "status" THEN status ELSE 0,
                                   <<outcome>>))
          /\ LET f == DownloadFailure(outcome, status, MsgTileDownload, e) IN
             IF f # <<>>
               THEN /\ Return(f[1])
                    /\ tile_bytes' = tile_bytes
               ELSE /\ tile_bytes' = tile_url
                    /\ pc' = "download_home"
                    /\ response' = response
    /\ UNCHANGED <<context_text, body, api_key, tile_url, home_url, home_bytes, context,
                   attempt, generation_prompt, contents, image_saved,
                   data_buffer, generation_attempts, chunk_count, consumed,
                   file_name, files, storage, public_url, rows>>

DownloadHome ==
    /\ pc = "download_home"
    /\ UNCHANGED <<worker_vars, record_vars, auth_vars>>
    /\ \E outcome \in GetOutcomes, status \in StatusCodes, e \in ErrTexts :
          /\ log' = Append(log, Ev("download_home",
                                   IF outcome = "status" THEN status ELSE 0,
                                   <<outcome>>))
          /\ LET f == DownloadFailure(outcome, status, MsgHomeDownload, e) IN
             IF f # <<>>
               THEN /\ Return(f[1])
                    /\ home_bytes' = home_bytes
               ELSE /\ home_bytes' = home_url
                    /\ pc' = "init_client"
                    /\ response' = response
    /\ UNCHANGED <<context_text, body, api_key, tile_url, home_url, tile_bytes, context,
                   attempt, generation_prompt, contents, image_saved,
                   data_buffer, generation_attempts, chunk_count, consumed,
                   file_name, files, storage, public_url, rows>>

\* ------------------------------------------------------------------------
\* Step 3: the client of the generation service, call_gemini_with_retry
\* ------------------------------------------------------------------------
\* gemini_client = genai.Client(api_key=api_key): an exception raised here
\* is outside every inner try and reaches the catch-all
InitClient ==
    /\ pc = "init_client"
    /\ UNCHANGED <<worker_vars, record_vars, auth_vars>>
    /\ \/ /\ \E e \in ErrTexts : Return(CatchAll(e))
          /\ log' = Append(log, Ev("init_client", 0, <<"raised">>))
       \/ /\ pc' = "analyze"
          /\ UNCHANGED <<response, log>>
    /\ UNCHANGED <<context_text, body, api_key, tile_url, home_url, tile_bytes,
                   home_bytes, context, attempt, generation_prompt, contents,
                   image_saved, data_buffer, generation_attempts, chunk_count,
                   consumed, file_name, files, storage, public_url, rows>>

RECURSIVE Pow2(_)
Pow2(n) == IF n = 0 THEN 1 ELSE 2 * Pow2(n - 1)

\* the exponent taken from the attempt number counted from 1
WaitTime_OneBased(a) == Pow2(a + 1) * 2

\* wait_time = (2 ** attempt) * 2
WaitTime(a) == Pow2(a) * 2

\* ------------------------------------------------------------------------
\* Step 4: context analysis
\* ------------------------------------------------------------------------
Keys == {"surface_type", "estimated_tile_size", "region_description",
         "lighting_condition"}

\* the value the analyzer reports for each key
AnalyzedValue ==
    [surface_type |-> "wall",
     estimated_tile_size |-> "large",
     region_description |-> "back wall",
     lighting_condition |-> "dim"]

\* A response text is a sequence of tokens: "{", "}", " " (white space),
\* "x" (any other text) and a key name, which stands for the member
\* "key": "value" of a JSON object.
KeyOrder == <<"surface_type", "estimated_tile_size", "region_description",
              "lighting_condition">>

RECURSIVE Members(_, _)
Members(S, i) ==
    IF i > Len(KeyOrder) THEN <<>>
    ELSE (IF KeyOrder[i] \in S THEN <<KeyOrder[i]>> ELSE <<>>) \o Members(S, i + 1)

ObjectText(S) == <<"{">> \o Members(S, 1) \o <<"}">>

Texts ==
    { <<>>, <<" ">>, <<"x">>, <<"x", "{">>, <<"{", " ", "}">>,
      <<"{", "x", "}">>, <<"{", "surface_type", "x", "region_description", "}">>,
      <<"{", "{", "surface_type", "region_description", "}", "}">> }
    \cup { pre \o ObjectText(S) \o suf :
             S \in SUBSET Keys, pre \in {<<>>, <<"x">>}, suf \in {<<>>, <<"x">>} }

\* not context_text or len(context_text.strip()) == 0
Blank(text) == \A i \in 1..Len(text) : text[i] = " "

\* re.search(r'\{[^}]+\}', text, re.DOTALL): the leftmost "{" that is followed
\* by at least one token other than "}" and then by "}"; <<>> when none
IsMatch(text, i, j) ==
    /\ text[i] = "{"
    /\ j >= i + 2
    /\ text[j] = "}"
    /\ \A k \in (i + 1)..(j - 1) : text[k] # "}"

Search(text) ==
    LET starts == { i \in 1..Len(text) :
                      \E j \in 1..Len(text) : IsMatch(text, i, j) } IN
    IF starts = {} THEN <<>>
    ELSE LET i == CHOOSE a \in starts : \A b \in starts : a <= b
             j == CHOOSE c \in 1..Len(text) : IsMatch(text, i, c)
         IN SubSeq(text, i, j)

\* json.loads(match) decodes when the tokens between the braces are members
\* and white space only
Decodes(match) ==
    \A k \in 2..(Len(match) - 1) : match[k] \in Keys \cup {" "}

Loads(match) ==
    LET S == { match[k] : k \in 2..(Len(match) - 1) } \cap Keys IN
    [k \in S |-> AnalyzedValue[k]]

\* the validation left out
Validates_Always(parsed) == TRUE

\* all(key in parsed_context for key in ["surface_type", "region_description"])
RequiredKeys == {"surface_type", "region_description"}

Validates(parsed) == RequiredKeys \subseteq DOMAIN parsed

\* context.update(parsed_context)
Update(ctx, parsed) ==
    [k \in DOMAIN ctx \cup DOMAIN parsed |->
        IF k \in DOMAIN parsed THEN parsed[k] ELSE ctx[k]]

\* the context after the response text has been handled (lines 276-299):
\* an empty text and a decode error raise and are caught, which leaves the
\* context as it was
ParseContext(ctx, text) ==
    IF Blank(text) THEN ctx
    ELSE LET m == Search(text) IN
         IF m = <<>> THEN ctx
         ELSE IF ~Decodes(m) THEN ctx
         ELSE IF Validates(Loads(m)) THEN Update(ctx, Loads(m))
         ELSE ctx

\* a failed call followed at once by the synthesis loop
AfterFailedCall_SkipCompose(a) == "gen_loop"

\* a failed call followed by a wait that never ends
AfterFailedCall_Hangs(a) == "analyze_hang"

\* every failed call followed by a sleep and another call
AfterFailedCall_Again(a) == "analyze_backoff"

\* where control goes when call number a + 1 failed: the last failure is
\* re-raised and caught at line 298, an earlier one is followed by a sleep
AfterFailedCall(a) ==
    IF a = max_retries - 1 THEN "compose" ELSE "analyze_backoff"

\* the retry loop going on after a response
AfterResponse_Retry == "analyze"

\* return response (line 208) ends the retries; the text is handled and
\* control reaches the prompt composition
AfterResponse == "compose"

\* one call of generate_content by call_gemini_with_retry, and, when it
\* returns a response, the handling of that response (lines 276-299)
AnalyzeCall ==
    /\ pc = "analyze"
    /\ UNCHANGED <<worker_vars, record_vars, auth_vars>>
    /\ \/ \* the call raises, or the response is empty
          /\ \E outcome \in {"raised", "empty"} :
                log' = Append(log, Ev("analyze", attempt + 1, <<"failed">>))
          /\ pc' = AfterFailedCall(attempt)
          /\ UNCHANGED <<context, context_text>>
       \/ \* the call returns a response
          /\ log' = Append(log, Ev("analyze", attempt + 1, <<"response">>))
          /\ \E text \in Texts :
                /\ context_text' = text
                /\ context' = ParseContext(context, text)
          /\ pc' = AfterResponse
    /\ UNCHANGED <<body, api_key, tile_url, home_url, tile_bytes, home_bytes,
                   attempt, generation_prompt, contents, image_saved,
                   data_buffer, generation_attempts, chunk_count, consumed,
                   file_name, files, storage, public_url, rows,
                   response>>

\* time.sleep(wait_time) between two calls
AnalyzeBackoff ==
    /\ pc = "analyze_backoff"
    /\ UNCHANGED <<worker_vars, record_vars, auth_vars>>
    /\ log' = Append(log, Ev("sleep", WaitTime(attempt), <<"analysis">>))
    /\ attempt' = attempt + 1
    /\ pc' = "analyze"
    /\ UNCHANGED <<context_text, body, api_key, tile_url, home_url, tile_bytes, home_bytes,
                   context, generation_prompt, contents, image_saved,
                   data_buffer, generation_attempts, chunk_count, consumed,
                   file_name, files, storage, public_url, rows,
                   response>>

\* ------------------------------------------------------------------------
\* Step 5: prompt composition
\* ------------------------------------------------------------------------
\* context.get(key, default)
Get(ctx, key, default) == IF key \in DOMAIN ctx THEN ctx[key] ELSE default

\* str.strip()
RECURSIVE LStrip(_)
LStrip(s) == IF s # <<>> /\ Head(s) = " " THEN LStrip(Tail(s)) ELSE s

RECURSIVE RStrip(_)
RStrip(s) ==
    IF s # <<>> /\ s[Len(s)] = " " THEN RStrip(SubSeq(s, 1, Len(s) - 1)) ELSE s

Strip(s) == RStrip(LStrip(s))

\* the prompt stamped with the number of synthesis attempts made so far
PrimaryPrompt_Stamped(ctx, user_prompt) ==
    <<"You are an expert visual compositor",
      "Apply tiles to:", IF "region_description" \in DOMAIN ctx
                           THEN ctx["region_description"]
                           ELSE "the appropriate floor or wall area",
      "Attempt:", ToString(generation_attempts),
      "CRITICAL RULES">>

\* generation_prompt (lines 304-354)
PrimaryPrompt(ctx, user_prompt) ==
    <<"You are an expert visual compositor",
      "Apply tiles to:", Get(ctx, "region_description", "the appropriate floor or wall area"),
      "Surface type:", Get(ctx, "surface_type", "floor"),
      "Preserve existing lighting", Get(ctx, "lighting_condition", "natural ambient"),
      "Tile size appears:", Get(ctx, "estimated_tile_size", "medium"),
      "CRITICAL RULES">>
    \o (IF user_prompt # <<>> /\ Strip(user_prompt) # <<>>
          THEN <<"USER REQUEST (highest priority):">> \o Strip(user_prompt)
          ELSE <<>>)

\* simplified_prompt (lines 391-396)
SimplifiedPrompt(ctx, user_prompt) ==
    <<"Replace only the visible", Get(ctx, "surface_type", "floor"),
      "area with the tile texture">>
    \o (IF user_prompt # <<>> /\ Strip(user_prompt) # <<>>
          THEN <<"User note:">> \o Strip(user_prompt)
          ELSE <<>>)

ComposePrimary ==
    /\ pc = "compose"
    /\ UNCHANGED <<worker_vars, record_vars, auth_vars>>
    /\ generation_prompt' = PrimaryPrompt(context, body.prompt)
    /\ contents' = PrimaryPrompt(context, body.prompt)
    /\ image_saved' = FALSE
    /\ data_buffer' = None
    /\ generation_attempts' = 0
    /\ context_text' = <<>>
    /\ pc' = "gen_loop"
    /\ UNCHANGED <<body, api_key, tile_url, home_url, tile_bytes, home_bytes,
                   context, attempt, chunk_count, consumed, file_name, files, storage, public_url, rows, response, log>>

\* ------------------------------------------------------------------------
\* Step 6: the synthesis attempt loop
\* ------------------------------------------------------------------------
Payloads == {"img1", "img2"}

\* inline_data of a part: None when the part is text, else its data bytes
NoInline == None
PartData == {NoInline, ""} \cup Payloads

\* A chunk of the response stream: the number of candidates, whether the
\* first candidate has content, and the inline data of each part of that
\* content.
Chunks ==
    { [ncand |-> 0, content |-> FALSE, parts |-> <<>>],
      [ncand |-> 1, content |-> FALSE, parts |-> <<>>],
      [ncand |-> 1, content |-> TRUE, parts |-> <<>>] }
    \cup { [ncand |-> 1, content |-> TRUE, parts |-> <<d>>] : d \in PartData }
    \cup { [ncand |-> 1, content |-> TRUE, parts |-> <<NoInline, d>>] : d \in Payloads }

\* the data taken from whichever part of the chunk has some
InlineData_AnyPart(chunk) ==
    IF chunk.ncand = 0 \/ ~chunk.content
      THEN None
      ELSE LET with_data == { k \in DOMAIN chunk.parts :
                                chunk.parts[k] \notin {NoInline, ""} }
           IN  IF with_data = {} THEN None
               ELSE chunk.parts[CHOOSE k \in with_data : \A j \in with_data : k <= j]

\* the data the loop body takes from a chunk (lines 421-434); None when the
\* chunk is skipped
InlineData(chunk) ==
    IF chunk.ncand = 0 \/ ~chunk.content \/ chunk.parts = <<>>
      THEN None
      ELSE IF chunk.parts[1] = NoInline \/ FalsyStr(chunk.parts[1])
             THEN None
             ELSE chunk.parts[1]

\* the contents never rebuilt with the simplified prompt
AttemptContents_NoFallback(n, current, ctx, user_prompt) == current

\* the instruction text sent on attempt n (lines 388-410)
AttemptContents(n, current, ctx, user_prompt) ==
    IF n = 2 THEN SimplifiedPrompt(ctx, user_prompt) ELSE current

\* while not image_saved and generation_attempts < max_generation_attempts
LoopContinues(saved, attempts) ==
    ~saved /\ attempts < max_generation_attempts

\* the head of the loop and the call of generate_content_stream
StartAttempt ==
    /\ pc = "gen_loop"
    /\ UNCHANGED <<worker_vars, record_vars, auth_vars>>
    /\ IF LoopContinues(image_saved, generation_attempts)
         THEN /\ generation_attempts' = generation_attempts + 1
              /\ contents' = AttemptContents(generation_attempts + 1, contents,
                                             context, body.prompt)
              /\ chunk_count' = 0
              /\ consumed' = <<>>
              /\ log' = Append(log, Ev("synth", generation_attempts + 1, contents'))
              /\ pc' = "stream"
         ELSE /\ pc' = "verify"
              /\ UNCHANGED <<generation_attempts, contents, chunk_count,
                             consumed, log>>
    /\ UNCHANGED <<context_text, body, api_key, tile_url, home_url, tile_bytes, home_bytes,
                   context, attempt, generation_prompt, image_saved,
                   data_buffer, file_name, files, storage, public_url, rows,
                   response>>

\* async with aiofiles.open(local_path, "wb") as f: await f.write(data)
WriteFile(fs, name, data) ==
    { f \in fs : f.name # name } \cup { [name |-> name, data |-> data] }

\* the chunk loop without its break
AfterChunk_NoBreak(saved) == "stream"

\* where control goes at the end of an iteration of the chunk loop: after
\* the image was saved, "break" leaves the chunk loop and the second "break"
\* leaves the attempt loop (lines 449-457); otherwise the next chunk is read
AfterChunk(saved) == IF saved THEN "verify" ELSE "stream"

\* one iteration of the chunk loop (lines 419-451)
ConsumeChunk ==
    /\ pc = "stream"
    /\ UNCHANGED <<worker_vars, record_vars, auth_vars>>
    /\ chunk_count < MaxChunks
    /\ \E chunk \in Chunks :
          /\ chunk_count' = chunk_count + 1
          /\ consumed' = Append(consumed, InlineData(chunk))
          /\ IF InlineData(chunk) = None
               THEN \* continue
                    /\ pc' = AfterChunk(FALSE)
                    /\ UNCHANGED <<data_buffer, file_name, files, image_saved, log>>
               ELSE /\ data_buffer' = InlineData(chunk)
                    /\ \E t \in 1..MaxTime :
                          /\ file_name' = t
                          /\ \/ \* the file is written
                                /\ files' = WriteFile(files, t, InlineData(chunk))
                                /\ image_saved' = TRUE
                                /\ log' = log \o
                                     << Ev("payload", generation_attempts, <<InlineData(chunk)>>),
                                        Ev("save_local", t, <<>>) >>
                                /\ pc' = AfterChunk(TRUE)
                             \/ \* opening or writing the file raises
                                /\ files' = files
                                /\ image_saved' = image_saved
                                /\ log' = log \o
                                     << Ev("payload", generation_attempts, <<InlineData(chunk)>>),
                                        Ev("attempt_failed", generation_attempts, <<"save failed">>) >>
                                /\ pc' = "gen_except"
    /\ UNCHANGED <<context_text, body, api_key, tile_url, home_url, tile_bytes, home_bytes,
                   context, attempt, generation_prompt, contents,
                   generation_attempts, storage, public_url, rows, response>>

\* the stream ends: "No image data received" is raised unless an image was
\* saved (lines 453-457)
StreamExhausted ==
    /\ pc = "stream"
    /\ UNCHANGED <<worker_vars, record_vars, auth_vars>>
    /\ IF ~image_saved
         THEN /\ log' = Append(log, Ev("attempt_failed", generation_attempts,
                                       <<"no image data">>))
              /\ pc' = "gen_except"
         ELSE /\ log' = log
              /\ pc' = "verify"
    /\ UNCHANGED <<context_text, body, api_key, tile_url, home_url, tile_bytes, home_bytes,
                   context, attempt, generation_prompt, contents, image_saved,
                   data_buffer, generation_attempts, chunk_count, consumed,
                   file_name, files, storage, public_url, rows,
                   response>>

\* generate_content_stream, or the iteration of its result, raises
StreamRaises ==
    /\ pc = "stream"
    /\ UNCHANGED <<worker_vars, record_vars, auth_vars>>
    /\ log' = Append(log, Ev("attempt_failed", generation_attempts,
                             <<"call raised">>))
    /\ pc' = "gen_except"
    /\ UNCHANGED <<context_text, body, api_key, tile_url, home_url, tile_bytes, home_bytes,
                   context, attempt, generation_prompt, contents, image_saved,
                   data_buffer, generation_attempts, chunk_count, consumed,
                   file_name, files, storage, public_url, rows,
                   response>>

\* the except clause never answering
Exhausted_Never(attempts) == FALSE

\* the comparison off by one
Exhausted_OffByOne(attempts) == attempts > max_generation_attempts

\* if generation_attempts >= max_generation_attempts (line 462)
Exhausted(attempts) == attempts >= max_generation_attempts

\* the answer carrying the text of the exception
GenerationFailure_Leaks(e) == Failure(<<MsgGenerationFailed, e>>)

\* the answer when every attempt failed (lines 465-468): str(e) of the
\* exception caught at line 459 is logged, the answer is a fixed text
GenerationFailure(e) == Failure(<<MsgGenerationFailed>>)

\* the except clause of the attempt (lines 459-471).  The try block has
\* been left: chunk_count, last read at line 454, and the chunks consumed
\* are dropped from the state here.
HandleAttemptFailure ==
    /\ pc = "gen_except"
    /\ UNCHANGED <<worker_vars, record_vars, auth_vars>>
    /\ IF Exhausted(generation_attempts)
         THEN /\ \E e \in ErrTexts : Return(GenerationFailure(e))
              /\ log' = log
         ELSE /\ log' = Append(log, Ev("sleep", GenerationBackoff, <<"generation">>))
              /\ pc' = "gen_loop"
              /\ response' = response
    /\ chunk_count' = 0
    /\ consumed' = <<>>
    /\ UNCHANGED <<context_text, body, api_key, tile_url, home_url, tile_bytes,
                   home_bytes, context, attempt, generation_prompt, contents,
                   image_saved, data_buffer, generation_attempts, file_name,
                   files, storage, public_url, rows>>

\* if not image_saved or not data_buffer (lines 473-479).  chunk_count and
\* the chunks consumed belong to the attempt loop, which has been left: they
\* are not read again and are dropped from the state here.
VerifyImage ==
    /\ pc = "verify"
    /\ UNCHANGED <<worker_vars, record_vars, auth_vars>>
    /\ IF ~image_saved \/ FalsyStr(data_buffer)
         THEN Return(Failure(<<MsgNoOutput>>))
         ELSE /\ pc' = "upload"
              /\ response' = response
    /\ chunk_count' = 0
    /\ consumed' = <<>>
    /\ UNCHANGED <<context_text, body, api_key, tile_url, home_url, tile_bytes,
                   home_bytes, context, attempt, generation_prompt, contents,
                   image_saved, data_buffer, generation_attempts, file_name,
                   files, storage, public_url, rows, log>>

\* ------------------------------------------------------------------------
\* Steps 7 and 8: persistence
\* ------------------------------------------------------------------------
\* the bytes read back from generated/<file_name>
ReadFile(fs, name) == (CHOOSE f \in fs : f.name = name).data

\* the upload failure raised as a server error
UploadFailure_Raises(e) == HTTPException(500, <<MsgUploadFailed, e>>)

\* the answers of the persistence phase when a step fails
UploadFailure(e) == Failure(<<MsgUploadFailed, e>>)
UrlFailure == Failure(<<MsgUrlFailed>>)
NoRecordFailure == Failure(<<MsgNoRecord>>)
DbFailure(e) == Failure(<<MsgDbFailed, e>>)

\* upload to the storage bucket (lines 481-497)
Upload ==
    /\ pc = "upload"
    /\ UNCHANGED <<worker_vars, record_vars, auth_vars>>
    /\ \/ \* reading the local file raises
          /\ \E e \in ErrTexts : Return(UploadFailure(e))
          /\ log' = Append(log, Ev("error", 0, <<"upload">>))
          /\ storage' = storage
       \/ \* the upload raises
          /\ \E e \in ErrTexts : Return(UploadFailure(e))
          /\ log' = log \o << Ev("upload", file_name, <<>>),
                              Ev("error", 0, <<"upload">>) >>
          /\ storage' = storage
       \/ /\ storage' = storage \cup
                { [name |-> file_name, data |-> ReadFile(files, file_name)] }
          /\ log' = Append(log, Ev("upload", file_name, <<>>))
          /\ pc' = "public_url"
          /\ response' = response
    /\ UNCHANGED <<context_text, body, api_key, tile_url, home_url, tile_bytes, home_bytes,
                   context, attempt, generation_prompt, contents, image_saved,
                   data_buffer, generation_attempts, chunk_count, consumed,
                   file_name, files, public_url, rows>>

\* get_public_url (lines 499-508)
GetPublicUrl ==
    /\ pc = "public_url"
    /\ UNCHANGED <<worker_vars, record_vars, auth_vars>>
    /\ \/ /\ Return(UrlFailure)
          /\ log' = log \o << Ev("public_url", file_name, <<>>),
                              Ev("error", 0, <<"public_url">>) >>
          /\ public_url' = public_url
       \/ /\ public_url' = file_name
          /\ log' = Append(log, Ev("public_url", file_name, <<>>))
          /\ pc' = "insert"
          /\ response' = response
    /\ UNCHANGED <<context_text, body, api_key, tile_url, home_url, tile_bytes, home_bytes,
                   context, attempt, generation_prompt, contents, image_saved,
                   data_buffer, generation_attempts, chunk_count, consumed,
                   file_name, files, storage, rows>>

\* the record carrying the surface of the request
DbRecord_WithSurface(b, url) ==
    [user_id |-> Caller,
     home_id |-> b.home_id,
     chat_id |-> b.chat_id,
     prompt |-> <<b.surface>> \o b.prompt,
     image_url |-> url]

\* the record carrying the tile of the request
DbRecord_WithTile(b, url) ==
    [user_id |-> Caller,
     home_id |-> b.home_id,
     chat_id |-> b.chat_id,
     tile_id |-> b.tile_id,
     prompt |-> IF b.prompt # <<>> THEN b.prompt ELSE <<"Auto-generated">>,
     image_url |-> url]

\* db_record (lines 513-523)
DbRecord(b, url) ==
    [user_id |-> Caller,
     home_id |-> b.home_id,
     chat_id |-> b.chat_id,
     prompt |-> IF b.prompt # <<>> THEN b.prompt ELSE <<"Auto-generated">>,
     image_url |-> url]

\* insert into generated_images (lines 525-550)
InsertRecord ==
    /\ pc = "insert"
    /\ UNCHANGED <<worker_vars, record_vars, auth_vars>>
    /\ \/ \* the insert raises
          /\ \E e \in ErrTexts : Return(DbFailure(e))
          /\ log' = log \o << Ev("insert", 0, <<>>), Ev("error", 0, <<"insert">>) >>
          /\ rows' = rows
       \/ \* the insert returns no row
          /\ Return(NoRecordFailure)
          /\ log' = log \o << Ev("insert", 0, <<>>), Ev("error", 0, <<"no row">>) >>
          /\ rows' \in {rows, Append(rows, DbRecord(body, public_url))}
       \/ /\ rows' = Append(rows, DbRecord(body, public_url))
          /\ log' = Append(log, Ev("insert", 0, <<>>))
          /\ Return(Success(DbRecord(body, public_url)))
    /\ UNCHANGED <<context_text, body, api_key, tile_url, home_url, tile_bytes, home_bytes,
                   context, attempt, generation_prompt, contents, image_saved,
                   data_buffer, generation_attempts, chunk_count, consumed,
                   file_name, files, storage, public_url>>

Next ==
    \/ Validate
    \/ ResolveTile
    \/ ResolveHome
    \/ CheckApiKey
    \/ DownloadTile
    \/ DownloadHome
    \/ InitClient
    \/ AnalyzeCall
    \/ AnalyzeBackoff
    \/ ComposePrimary
    \/ StartAttempt
    \/ ConsumeChunk
    \/ StreamExhausted
    \/ StreamRaises
    \/ HandleAttemptFailure
    \/ VerifyImage
    \/ Upload
    \/ GetPublicUrl
    \/ InsertRecord

Spec == Init /\ [][Next]_vars

\* every call the handler makes returns or raises, and every stream ends:
\* the handler takes its next step as long as it has one
FairSpec == Spec /\ WF_vars(Next)

\* the handler followed for requests that differ in surface only
InitSurface == InitOf(UrlRequests)

SpecSurface == InitSurface /\ [][Next]_vars

\* ------------------------------------------------------------------------
\* The record endpoints: routes_tiles.py, routes_homes.py, routes_chats.py,
\* update_generated_image and delete_generated_image, and the insert made by
\* generate_image.  Each call is one step; answer holds the call and its
\* result.  Columns that no endpoint filters on or joins are left out.
\* ------------------------------------------------------------------------
Users == {Caller, Other}

InitialTiles ==
    { [id |-> 1, user_id |-> Caller, name |-> "tileA"],
      [id |-> 2, user_id |-> Other, name |-> "tileB"] }

InitialHomes ==
    { [id |-> 2, user_id |-> Other, name |-> "homeB"] }

InitialChats ==
    { [id |-> 5, user_id |-> Caller],
      [id |-> 6, user_id |-> Other] }

\* get_public_url(file_name), split at "/"
PublicUrl(name) ==
    <<"https:", "", "host", "storage", "v1", "object", "public", "generated",
      name>>

InitialImages ==
    { [id |-> 2, user_id |-> Other, chat_id |-> 6, home_id |-> 2,
       tile_id |-> NoId, image_url |-> PublicUrl(2)] }

\* the objects of the bucket: one for each row
InitialStorage == { [name |-> 2, data |-> "img2"] }

\* path parameters and body fields of the calls
TileKeys == {1, 2}
HomeKeys == {2}
ChatKeys == {5, 6}
ImageKeys == {1, 2}
\* the id a newly inserted generated_images row gets
FreshImageId == 1
\* UpdateTileRequest.name
TileNames == {None, "renamed"}
\* UpdateGeneratedRequest.kept and .tile_id
KeptValues == {None, "true"}
TileLinks == {NoId, 2}

RecordsInit ==
    /\ tiles = InitialTiles
    /\ homes = InitialHomes
    /\ chats = InitialChats
    /\ generated_images = InitialImages
    /\ answer = [op |-> "none", user |-> None, id |-> 0, arg |-> 0,
                 status |-> 0, data |-> {}]
    /\ NoHandler
    /\ files = {}
    /\ storage = InitialStorage
    /\ rows = <<>>
    /\ NoWorker
    /\ NoAuth

\* what a call of operation op by user u on id answered: the status (200
\* for a returned dict, else that of the HTTPException) and the rows returned
Answer(op, u, id, arg, status, data) ==
    [op |-> op, user |-> u, id |-> id, arg |-> arg, status |-> status,
     data |-> data]

\* .update(update_data).eq("id", id).eq("user_id", user_id).execute()
UpdateWhere(table, id, user_id, field, value) ==
    { IF r.id = id /\ r.user_id = user_id
        THEN [r EXCEPT ![field] = value] ELSE r : r \in table }

\* .delete().eq("id", id).eq("user_id", user_id).execute()
DeleteWhere(table, id, user_id) ==
    { r \in table : ~(r.id = id /\ r.user_id = user_id) }

\* the embedded resource of a select: tiles(name), homes(id, name, image_url);
\* the row of the other table that the foreign key references, None when
\* there is none
Embedded(table, key) ==
    IF \E t \in table : t.id = key
      THEN (CHOOSE t \in table : t.id = key).name
      ELSE None

\* GET /api/tiles/{tile_id}
GetTileById ==
    /\ \E u \in Users, tile_id \in TileKeys :
          \/ answer' = Answer("get_tile_by_id", u, 0, 0, 500, {})
          \/ LET data == Select(tiles, tile_id, u) IN
             answer' = Answer("get_tile_by_id", u, tile_id, 0,
                              IF data = {} THEN 404 ELSE 200, data)
    /\ UNCHANGED <<tiles, homes, chats, generated_images>>
    /\ UNCHANGED <<local_vars, files, storage, rows, worker_vars, auth_vars>>

\* PATCH /api/tiles/{tile_id}
UpdateTile ==
    /\ \E u \in Users, tile_id \in TileKeys, name \in TileNames :
          \/ /\ answer' = Answer("update_tile", u, 0, 0, 500, {})
             /\ tiles' = tiles
          \/ LET existing == Select(tiles, tile_id, u) IN
             IF existing = {}
               THEN /\ answer' = Answer("update_tile", u, tile_id, name, 404, {})
                    /\ tiles' = tiles
               ELSE IF name = None
                 THEN /\ answer' = Answer("update_tile", u, tile_id, name, 400, {})
                      /\ tiles' = tiles
                 ELSE /\ tiles' = UpdateWhere(tiles, tile_id, u, "name", name)
                      /\ answer' = Answer("update_tile", u, tile_id, name, 200,
                                          Select(tiles', tile_id, u))
    /\ UNCHANGED <<homes, chats, generated_images>>
    /\ UNCHANGED <<local_vars, files, storage, rows, worker_vars, auth_vars>>

\* DELETE /api/tiles/{tile_id}
DeleteTile ==
    /\ \E u \in Users, tile_id \in TileKeys :
          \/ /\ answer' = Answer("delete_tile", u, 0, 0, 500, {})
             /\ tiles' = tiles
          \/ LET existing == Select(tiles, tile_id, u) IN
             IF existing = {}
               THEN /\ answer' = Answer("delete_tile", u, tile_id, 0, 404, {})
                    /\ tiles' = tiles
               ELSE /\ tiles' = DeleteWhere(tiles, tile_id, u)
                    /\ answer' = Answer("delete_tile", u, tile_id, 0, 200, {})
    /\ UNCHANGED <<homes, chats, generated_images>>
    /\ UNCHANGED <<local_vars, files, storage, rows, worker_vars, auth_vars>>

\* GET /api/tiles/{tile_id}/generated: the caller's images linked to the
\* tile, each with the home its home_id references
GetGeneratedImages ==
    /\ \E u \in Users, tile_id \in TileKeys :
          \/ answer' = Answer("get_generated_images", u, 0, 0, 500, {})
          \/ answer' = Answer("get_generated_images", u, tile_id, 0, 200,
                 { [id |-> r.id, user_id |-> r.user_id, home_id |-> r.home_id,
                    homes |-> Embedded(homes, r.home_id)] :
                     r \in { g \in generated_images :
                               g.tile_id = tile_id /\ g.user_id = u } })
    /\ UNCHANGED <<tiles, homes, chats, generated_images>>
    /\ UNCHANGED <<local_vars, files, storage, rows, worker_vars, auth_vars>>

\* GET /api/homes/{home_id}
GetHomeById ==
    /\ \E u \in Users, home_id \in HomeKeys :
          \/ answer' = Answer("get_home_by_id", u, 0, 0, 500, {})
          \/ LET data == Select(homes, home_id, u) IN
             answer' = Answer("get_home_by_id", u, home_id, 0,
                              IF data = {} THEN 404 ELSE 200, data)
    /\ UNCHANGED <<tiles, homes, chats, generated_images>>
    /\ UNCHANGED <<local_vars, files, storage, rows, worker_vars, auth_vars>>

\* DELETE /api/homes/{home_id}
DeleteHome ==
    /\ \E u \in Users, home_id \in HomeKeys :
          \/ /\ answer' = Answer("delete_home", u, 0, 0, 500, {})
             /\ homes' = homes
          \/ LET existing == Select(homes, home_id, u) IN
             IF existing = {}
               THEN /\ answer' = Answer("delete_home", u, home_id, 0, 404, {})
                    /\ homes' = homes
               ELSE /\ homes' = DeleteWhere(homes, home_id, u)
                    /\ answer' = Answer("delete_home", u, home_id, 0, 200, {})
    /\ UNCHANGED <<tiles, chats, generated_images>>
    /\ UNCHANGED <<local_vars, files, storage, rows, worker_vars, auth_vars>>

\* GET /api/chats/{chat_id}: the chat, and the caller's images of the chat,
\* each with the name of the tile its tile_id references
GetChatWithImages ==
    /\ \E u \in Users, chat_id \in ChatKeys :
          \/ answer' = Answer("get_chat_with_images", u, 0, 0, 500, {})
          \/ LET chat_res == Select(chats, chat_id, u) IN
             IF chat_res = {}
               THEN answer' = Answer("get_chat_with_images", u, chat_id, 0, 404, {})
               ELSE answer' = Answer("get_chat_with_images", u, chat_id, 0, 200,
                      chat_res \cup
                      { [id |-> r.id, chat_id |-> r.chat_id, tile_id |-> r.tile_id,
                         tile_name |-> Embedded(tiles, r.tile_id)] :
                          r \in { g \in generated_images :
                                    g.chat_id = chat_id /\ g.user_id = u } })
    /\ UNCHANGED <<tiles, homes, chats, generated_images>>
    /\ UNCHANGED <<local_vars, files, storage, rows, worker_vars, auth_vars>>

\* update_data of update_generated_image (lines 607-612), applied; the
\* column kept is not among the columns of the model
UpdateData(table, id, user_id, kept, tile_id) ==
    IF tile_id = NoId THEN table
    ELSE UpdateWhere(table, id, user_id, "tile_id", tile_id)

\* PATCH /api/generated/{image_id}
UpdateGeneratedImage ==
    /\ \E u \in Users, image_id \in ImageKeys, kept \in KeptValues,
          tile_id \in TileLinks :
          LET arg == <<kept, tile_id>> IN
          \/ /\ answer' = Answer("update_generated_image", u, 0, 0, 500, {})
             /\ generated_images' = generated_images
          \/ LET existing == Select(generated_images, image_id, u) IN
             IF existing = {}
               THEN /\ answer' = Answer("update_generated_image", u, image_id,
                                        arg, 404, {})
                    /\ generated_images' = generated_images
               ELSE IF kept = None /\ tile_id = NoId
                 THEN /\ answer' = Answer("update_generated_image", u, image_id,
                                          arg, 400, {})
                      /\ generated_images' = generated_images
                 ELSE /\ generated_images' =
                           UpdateData(generated_images, image_id, u, kept, tile_id)
                      /\ answer' = Answer("update_generated_image", u, image_id,
                                          arg, 200,
                                          Select(generated_images', image_id, u))
    /\ UNCHANGED <<tiles, homes, chats>>
    /\ UNCHANGED <<local_vars, files, storage, rows, worker_vars, auth_vars>>

\* url_parts.index("public"), counted from 1; 0 when "public" is no part
IndexOfPublic(url_parts) ==
    IF \E i \in DOMAIN url_parts : url_parts[i] = "public"
      THEN CHOOSE i \in DOMAIN url_parts :
              /\ url_parts[i] = "public"
              /\ \A j \in 1..(i - 1) : url_parts[j] # "public"
      ELSE 0

\* the object that step 3 of delete_generated_image removes: <<bucket,
\* filename>>, <<>> when the URL has no "storage" part or too few parts
\* after "public" (lines 708-714); url_parts.index raises when "public" is
\* missing, which the inner except swallows
RemovalTarget(url_parts) ==
    LET public_index == IndexOfPublic(url_parts) IN
    IF /\ \E i \in DOMAIN url_parts : url_parts[i] = "storage"
       /\ public_index # 0
       /\ public_index + 1 < Len(url_parts)
      THEN <<url_parts[public_index + 1], url_parts[public_index + 2]>>
      ELSE <<>>

\* supabase.storage.from_(bucket).remove([filename])
Remove(bucket, filename) == { o \in bucket : o.name # filename }

\* the storage removal raising an error of the request
StorageFailure_Raises(u, image_id) ==
    Answer("delete_generated_image", u, image_id, "remove_failed", 500, {})

\* except Exception as storage_error (lines 719-721): logged, the request
\* goes on to its answer
StorageFailure(u, image_id) ==
    Answer("delete_generated_image", u, image_id, "remove_failed", 200, {})

\* DELETE /api/generated/{image_id}
DeleteGeneratedImage ==
    /\ \E u \in Users, image_id \in ImageKeys :
          \/ /\ answer' = Answer("delete_generated_image", u, 0, 0, 500, {})
             /\ generated_images' = generated_images
             /\ storage' = storage
          \/ LET existing == Select(generated_images, image_id, u) IN
             IF existing = {}
               THEN /\ answer' = Answer("delete_generated_image", u, image_id,
                                        0, 404, {})
                    /\ generated_images' = generated_images
                    /\ storage' = storage
               ELSE LET image == CHOOSE r \in existing : TRUE
                        target == RemovalTarget(image.image_url)
                    IN  /\ generated_images' = DeleteWhere(generated_images, image_id, u)
                        /\ \/ /\ target = <<>>
                              /\ storage' = storage
                              /\ answer' = Answer("delete_generated_image", u,
                                                  image_id, "no_attempt", 200, {})
                           \/ /\ target # <<>>
                              /\ storage' = Remove(storage, target[2])
                              /\ answer' = Answer("delete_generated_image", u,
                                                  image_id, "removed", 200, {})
                           \/ /\ target # <<>>
                              /\ storage' = storage
                              /\ answer' = StorageFailure(u, image_id)
    /\ UNCHANGED <<tiles, homes, chats>>
    /\ UNCHANGED <<local_vars, files, rows, worker_vars, auth_vars>>

\* the row the table holds for an inserted db_record: the columns the record
\* does not name take their defaults (tile_id null)
InsertedRow(record, id) ==
    [id |-> id,
     user_id |-> record.user_id,
     chat_id |-> record.chat_id,
     home_id |-> record.home_id,
     tile_id |-> IF "tile_id" \in DOMAIN record THEN record.tile_id ELSE NoId,
     image_url |-> record.image_url]

\* the request passes step 0.5 and step 0.6 of generate_image
Preflight(b) ==
    /\ ~MissingTile(b)
    /\ ~MissingHome(b)
    /\ NeedsLookup(b.tile_url, b.tile_id) => Select(tiles, b.tile_id, Caller) # {}
    /\ NeedsLookup(b.home_url, b.home_id) => Select(homes, b.home_id, Caller) # {}

\* POST /generate by the caller, reaching its insert (lines 510-543)
GenerateInsert ==
    /\ \A r \in generated_images : r.id # FreshImageId
    /\ \E b \in DefaultRequests :
          /\ Preflight(b)
          /\ LET row == InsertedRow(DbRecord(b, PublicUrl(FreshImageId)),
                                    FreshImageId)
             IN  /\ generated_images' = generated_images \cup {row}
                 /\ answer' = Answer("generate_image", Caller, FreshImageId,
                                     b.tile_id, 200, {row})
    \* the upload of lines 484-490 came before the insert
    /\ storage' = storage \cup {[name |-> FreshImageId, data |-> "img1"]}
    /\ UNCHANGED <<tiles, homes, chats>>
    /\ UNCHANGED <<local_vars, files, rows, worker_vars, auth_vars>>

RecordsNext ==
    \/ GetTileById
    \/ UpdateTile
    \/ DeleteTile
    \/ GetGeneratedImages
    \/ GetHomeById
    \/ DeleteHome
    \/ GetChatWithImages
    \/ UpdateGeneratedImage
    \/ DeleteGeneratedImage
    \/ GenerateInsert

SpecRecords == RecordsInit /\ [][RecordsNext]_vars

\* ------------------------------------------------------------------------
\* One worker: generate_image is an async def, so the requests of a worker
\* are coroutines of one event loop and one thread.  A coroutine gives the
\* thread back only at an await (client.get, aiofiles open, write, read and
\* close); every other call, time.sleep included, keeps it.  A step runs one
\* coroutine from an await, or from a blocking call, to the next.
\* ------------------------------------------------------------------------
Requests == {1, 2}

\* the image the generation service produces for a request
PayloadOf(r) == IF r = 1 THEN "img1" ELSE "img2"

\* positions at an await: the coroutine is suspended, the thread is free
Suspended == {"tile_get", "home_get", "file_open", "file_write", "file_read",
              "file_close"}

\* positions in time.sleep: the coroutine holds the thread
Sleeping == {"sleep_analysis", "sleep_generation"}

NewTask ==
    [pc |-> "start", attempt |-> 0, generation_attempts |-> 0,
     data_buffer |-> None, file_name |-> 0, file_data |-> None,
     artifact |-> FALSE, uploaded |-> FALSE, outcome |-> "none"]

WorkerInit ==
    /\ tasks = [r \in Requests |-> NewTask]
    /\ running = 0
    /\ clock = 1
    /\ files = {}
    /\ storage = {}
    /\ rows = <<>>
    /\ NoHandler
    /\ NoRecords
    /\ NoAuth

\* the coroutine ends with an answer
Ended(t, outcome) == [t EXCEPT !.pc = "done", !.outcome = outcome]

\* the except clause of the attempt (lines 459-471) in the coroutine: the
\* answer after the last attempt, else time.sleep(3), which keeps the thread
AttemptFailed(r, t) ==
    IF Exhausted(t.generation_attempts)
      THEN /\ tasks' = [tasks EXCEPT ![r] = Ended(t, "failure")]
           /\ running' = 0
      ELSE /\ tasks' = [tasks EXCEPT ![r] = [t EXCEPT !.pc = "sleep_generation"]]
           /\ running' = r

\* the loop starts the coroutine: steps 0 to 1, up to await client.get(tile_url)
Accept ==
    /\ running = 0
    /\ \E r \in Requests :
          /\ tasks[r].pc = "start"
          /\ \/ tasks' = [tasks EXCEPT ![r] = Ended(@, "http_error")]
             \/ tasks' = [tasks EXCEPT ![r].pc = "tile_get"]
    /\ UNCHANGED <<running, clock, files, storage, rows, local_vars, record_vars, auth_vars>>

\* the tile response arrives; await client.get(home_url) (lines 155-164)
TileReceived ==
    /\ running = 0
    /\ \E r \in Requests :
          /\ tasks[r].pc = "tile_get"
          /\ \/ tasks' = [tasks EXCEPT ![r] = Ended(@, "http_error")]
             \/ tasks' = [tasks EXCEPT ![r].pc = "home_get"]
    /\ UNCHANGED <<running, clock, files, storage, rows, local_vars, record_vars, auth_vars>>

\* the home response arrives; the coroutine goes on to the analysis without
\* an await (lines 165-274)
HomeReceived ==
    /\ running = 0
    /\ \E r \in Requests :
          /\ tasks[r].pc = "home_get"
          /\ \/ /\ tasks' = [tasks EXCEPT ![r] = Ended(@, "http_error")]
                /\ running' = 0
             \/ /\ tasks' = [tasks EXCEPT ![r].pc = "analysis"]
                /\ running' = r
    /\ UNCHANGED <<clock, files, storage, rows, local_vars, record_vars, auth_vars>>

\* one call of generate_content by call_gemini_with_retry (lines 193-220): a
\* failure with attempts left is followed by time.sleep(wait_time)
Analysis ==
    /\ \E r \in Requests :
          /\ running = r
          /\ tasks[r].pc = "analysis"
          /\ \/ tasks' = [tasks EXCEPT ![r].pc =
                            IF AfterFailedCall(tasks[r].attempt) = "analyze_backoff"
                              THEN "sleep_analysis" ELSE "synthesis"]
             \/ tasks' = [tasks EXCEPT ![r].pc = "synthesis"]
    /\ UNCHANGED <<running, clock, files, storage, rows, local_vars, record_vars, auth_vars>>

\* time.sleep(wait_time) returns (line 220)
AnalysisSleepEnds ==
    /\ \E r \in Requests :
          /\ running = r
          /\ tasks[r].pc = "sleep_analysis"
          /\ tasks' = [tasks EXCEPT ![r].pc = "analysis",
                                    ![r].attempt = @ + 1]
    /\ UNCHANGED <<running, clock, files, storage, rows, local_vars, record_vars, auth_vars>>

\* one synthesis attempt up to its first await (lines 382-446): the stream
\* is consumed without an await; a payload leads to await aiofiles.open
Synthesis ==
    /\ \E r \in Requests :
          /\ running = r
          /\ tasks[r].pc = "synthesis"
          /\ LET t == [tasks[r] EXCEPT !.generation_attempts = @ + 1] IN
             \/ /\ tasks' = [tasks EXCEPT ![r] =
                              [t EXCEPT !.pc = "file_open",
                                        !.data_buffer = PayloadOf(r),
                                        !.file_name = clock]]
                /\ running' = 0
             \/ AttemptFailed(r, t)
    /\ UNCHANGED <<clock, files, storage, rows, local_vars, record_vars, auth_vars>>

\* time.sleep(3) returns (line 471)
GenerationSleepEnds ==
    /\ \E r \in Requests :
          /\ running = r
          /\ tasks[r].pc = "sleep_generation"
          /\ tasks' = [tasks EXCEPT ![r].pc = "synthesis"]
    /\ UNCHANGED <<running, clock, files, storage, rows, local_vars, record_vars, auth_vars>>

\* aiofiles.open(local_path, "wb") has created or truncated the file;
\* await f.write(data_buffer) (lines 446-447)
FileOpened ==
    /\ running = 0
    /\ \E r \in Requests :
          /\ tasks[r].pc = "file_open"
          /\ \/ /\ files' = WriteFile(files, tasks[r].file_name, "")
                /\ tasks' = [tasks EXCEPT ![r].pc = "file_write",
                                          ![r].artifact = TRUE]
                /\ running' = 0
             \/ /\ files' = files
                /\ AttemptFailed(r, tasks[r])
    /\ UNCHANGED <<clock, storage, rows, local_vars, record_vars, auth_vars>>

\* the write and the close of the file are done; image_saved = True, both
\* loops are left, await aiofiles.open(local_path, "rb") (lines 447-485)
FileWritten ==
    /\ running = 0
    /\ \E r \in Requests :
          /\ tasks[r].pc = "file_write"
          /\ \/ /\ files' = WriteFile(files, tasks[r].file_name,
                                      tasks[r].data_buffer)
                /\ tasks' = [tasks EXCEPT ![r].pc = "file_read"]
                /\ running' = 0
             \/ /\ files' = files
                /\ AttemptFailed(r, tasks[r])
    /\ UNCHANGED <<clock, storage, rows, local_vars, record_vars, auth_vars>>

\* file_data = await f.read(), then the upload, which raises when the bucket
\* holds an object of that name; await of the close of the file
\* (lines 484-497)
FileRead ==
    /\ running = 0
    /\ \E r \in Requests :
          /\ tasks[r].pc = "file_read"
          /\ LET name == tasks[r].file_name
                 file_data == ReadFile(files, name)
             IN  \/ /\ tasks' = [tasks EXCEPT ![r] = Ended(@, "failure")]
                    /\ storage' = storage
                 \/ /\ \A o \in storage : o.name # name
                    /\ storage' = storage \cup {[name |-> name, data |-> file_data]}
                    /\ tasks' = [tasks EXCEPT ![r].pc = "file_close",
                                              ![r].file_data = file_data,
                                              ![r].uploaded = TRUE]
    /\ UNCHANGED <<running, clock, files, rows, local_vars, record_vars, auth_vars>>

\* the file is closed; get_public_url and the insert (lines 499-550)
FileClosed ==
    /\ running = 0
    /\ \E r \in Requests :
          /\ tasks[r].pc = "file_close"
          /\ \/ /\ tasks' = [tasks EXCEPT ![r] = Ended(@, "failure")]
                /\ rows' = rows
             \/ /\ tasks' = [tasks EXCEPT ![r] = Ended(@, "success")]
                /\ rows' = Append(rows, [request |-> r,
                                         image_url |-> tasks[r].file_name])
    /\ UNCHANGED <<running, clock, files, storage, local_vars, record_vars, auth_vars>>

\* the request is cancelled: CancelledError is raised at the await where the
\* coroutine is suspended; it is not an Exception, so no except clause of the
\* handler (lines 459, 492, 552, 556) catches it
Cancel ==
    /\ running = 0
    /\ \E r \in Requests :
          /\ tasks[r].pc \in Suspended
          /\ tasks' = [tasks EXCEPT ![r].pc = "cancelled",
                                    ![r].outcome = "cancelled"]
    /\ UNCHANGED <<running, clock, files, storage, rows, local_vars, record_vars, auth_vars>>

\* a second passes
Tick ==
    /\ clock < MaxClock
    /\ clock' = clock + 1
    /\ UNCHANGED <<tasks, running, files, storage, rows, local_vars, record_vars, auth_vars>>

WorkerNext ==
    \/ Accept
    \/ TileReceived
    \/ HomeReceived
    \/ Analysis
    \/ AnalysisSleepEnds
    \/ Synthesis
    \/ GenerationSleepEnds
    \/ FileOpened
    \/ FileWritten
    \/ FileRead
    \/ FileClosed
    \/ Cancel
    \/ Tick

SpecWorker == WorkerInit /\ [][WorkerNext]_vars

\* ------------------------------------------------------------------------
\* app/services/auth.py: the JWKS cache of the token verification
\* ------------------------------------------------------------------------
\* resp.json()["keys"]: the key lists the endpoint can answer with
EmptyKeys == "[]"
KeySets == {EmptyKeys, "keys1", "keys2"}

\* "not keys" of a list or None
FalsyKeys(keys) == keys = None \/ keys = EmptyKeys

\* the time between two calls, in seconds
Elapse == 300

\* _jwks_cache = {"keys": None, "timestamp": 0}
AuthInit ==
    /\ jwks_cache = [keys |-> None, timestamp |-> 0]
    /\ jwks_call = [at |-> 0, before |-> jwks_cache, fetched |-> FALSE,
                    result |-> "none"]
    /\ clock = 0
    /\ tasks = <<>>
    /\ running = 0
    /\ NoHandler
    /\ files = {}
    /\ storage = {}
    /\ rows = <<>>
    /\ NoRecords

\* if not _jwks_cache["keys"] or (now - _jwks_cache["timestamp"] > 600)
Stale(cache, now) ==
    FalsyKeys(cache.keys) \/ now - cache.timestamp > JwksRefresh

\* _get_jwks() called at time now
get_jwks ==
    /\ LET now == clock IN
       IF Stale(jwks_cache, now)
         THEN \/ \* requests.get, raise_for_status or resp.json()["keys"] raises
                 /\ jwks_cache' = jwks_cache
                 /\ jwks_call' = [at |-> now, before |-> jwks_cache,
                                  fetched |-> TRUE, result |-> "raised"]
              \/ \E keys \in KeySets :
                    /\ jwks_cache' = [keys |-> keys, timestamp |-> now]
                    /\ jwks_call' = [at |-> now, before |-> jwks_cache,
                                     fetched |-> TRUE, result |-> keys]
         ELSE /\ jwks_cache' = jwks_cache
              /\ jwks_call' = [at |-> now, before |-> jwks_cache,
                               fetched |-> FALSE, result |-> jwks_cache.keys]
    /\ UNCHANGED <<local_vars, files, storage, rows, worker_vars, record_vars>>

\* time passes between two calls
Advance ==
    /\ clock + Elapse <= MaxNow
    /\ clock' = clock + Elapse
    /\ UNCHANGED <<tasks, running, local_vars, files, storage, rows,
                   record_vars, auth_vars>>

AuthNext ==
    \/ get_jwks
    \/ Advance

SpecAuth == AuthInit /\ [][AuthNext]_vars

\* ------------------------------------------------------------------------
\* Properties
\* ------------------------------------------------------------------------
\* positions of the events named e in the log
Idx(e) == { i \in DOMAIN log : log[i].ev = e }

\* attempt n ended without a payload: its stream ran out, or the call raised
NoPayloadFailure(n) ==
    \E i \in Idx("attempt_failed") :
        /\ log[i].n = n
        /\ log[i].arg \in { <<"no image data">>, <<"call raised">> }

NoTileSource == body.tile_url = None /\ body.tile_id = NoId
NoHomeSource == body.home_url = None /\ body.home_id = NoId

\* C1: at most two synthesis attempts are made; attempt 1 sends the primary
\* prompt; attempt 2 sends the simplified (fallback) prompt, never the primary
\* one, and is preceded by the 3-second sleep that follows the failure of
\* attempt 1; after attempt 1 ended without a payload the handler does not
\* answer before attempt 2 was invoked.
C1_FallbackOnSecondAttempt ==
    /\ Cardinality(Idx("synth")) <= 2
    /\ \A i \in Idx("synth") :
         /\ log[i].n \in {1, 2}
         /\ log[i].n = 1 => log[i].arg = PrimaryPrompt(context, body.prompt)
         /\ log[i].n = 2 =>
              /\ log[i].arg = SimplifiedPrompt(context, body.prompt)
              /\ log[i].arg # PrimaryPrompt(context, body.prompt)
              /\ i > 2
              /\ log[i - 1] = Ev("sleep", 3, <<"generation">>)
              /\ log[i - 2].ev = "attempt_failed"
              /\ log[i - 2].n = 1
    /\ \A i \in Idx("attempt_failed") :
         (log[i].n = 1 /\ log[i].arg \in { <<"no image data">>, <<"call raised">> })
            => /\ pc = "done" => \E j \in Idx("synth") : j > i /\ log[j].n = 2
               /\ i + 1 \in DOMAIN log => log[i + 1] = Ev("sleep", 3, <<"generation">>)
               /\ i + 2 \in DOMAIN log => log[i + 2].ev = "synth" /\ log[i + 2].n = 2

C1_Witness ==
    \E i \in Idx("attempt_failed") :
        /\ log[i].n = 1
        /\ log[i].arg = <<"no image data">>
        /\ i + 2 \in DOMAIN log
        /\ log[i + 2].ev = "synth"
        /\ log[i + 2].n = 2

\* C2: within an attempt no chunk is consumed after one that carried inline
\* data; when the loop is left with an image, the data kept (in data_buffer
\* and in the saved file) is that of this first such chunk, which is the last
\* chunk consumed.
C2_FirstPayloadWins ==
    /\ chunk_count = Len(consumed)
    /\ \A i \in 1..(Len(consumed) - 1) : consumed[i] = None
    /\ image_saved =>
         /\ pc # "stream"
         /\ [name |-> file_name, data |-> data_buffer] \in files
    /\ (image_saved /\ pc = "verify") =>
         /\ consumed # <<>>
         /\ consumed[Len(consumed)] # None
         /\ data_buffer = consumed[Len(consumed)]

C2_Witness ==
    /\ consumed = <<None, None, None, "img2">>
    /\ chunk_count = 4
    /\ image_saved
    /\ data_buffer = "img2"

\* C3: once a payload was found in an attempt, no later synthesis attempt is
\* invoked and the handler does not answer with the generation failure.
C3_PayloadEndsLoop ==
    \A i \in Idx("payload") :
        /\ \A j \in Idx("synth") : j < i
        /\ response # Failure(<<MsgGenerationFailed>>)

\* C4: when both attempts ended without a payload the handler answers with
\* the fixed generation-failure envelope and makes no persistence call.
C4_NoPersistenceAfterFailure ==
    (NoPayloadFailure(1) /\ NoPayloadFailure(2)) =>
        /\ pc \in {"gen_except", "done"}
        /\ pc = "done" => response = Failure(<<MsgGenerationFailed>>)
        /\ Idx("upload") \cup Idx("public_url") \cup Idx("insert") = {}
        /\ storage = {}
        /\ rows = <<>>

C4_Witness ==
    /\ NoPayloadFailure(1)
    /\ NoPayloadFailure(2)
    /\ pc = "done"

\* C5: a failed persistence step (upload, public URL, insert raising or
\* returning no row) is the last thing the handler does: it answers with a
\* success:false envelope, not an HTTP error, whose message says that the
\* image exists but was not fully persisted, and no later step is executed.
C5_PersistenceFailureEnvelope ==
    \A i \in Idx("error") :
        /\ i = Len(log)
        /\ Idx("payload") # {}
        /\ pc = "done"
        /\ response.kind = "json"
        /\ ~response.success
        /\ response.error # <<>>
        /\ log[i].arg = <<"upload">> =>
             /\ response.error[1] = MsgUploadFailed
             /\ Idx("public_url") \cup Idx("insert") = {}
             /\ rows = <<>>
        /\ log[i].arg = <<"public_url">> =>
             /\ response.error[1] = MsgUrlFailed
             /\ Idx("insert") = {}
             /\ rows = <<>>
        /\ log[i].arg = <<"insert">> => response.error[1] = MsgDbFailed
        /\ log[i].arg = <<"no row">> => response.error[1] = MsgNoRecord

C5_Witness ==
    /\ pc = "done"
    /\ Idx("upload") # {}
    /\ log[Len(log)] = Ev("error", 0, <<"upload">>)

\* the response text holds an object that decodes and lacks one of the four keys
LacksKey(text) ==
    /\ Search(text) # <<>>
    /\ Decodes(Search(text))
    /\ DOMAIN Loads(Search(text)) # Keys

\* C6: after the analysis, a response whose object lacks one of the four
\* keys has left the context equal to the default tuple, and a context that
\* differs from the default comes from an object with all four keys.
C6_NoPartialMerge ==
    pc = "compose" =>
        /\ LacksKey(context_text) => context = DefaultContext
        /\ context # DefaultContext =>
             DOMAIN Loads(Search(context_text)) = Keys

\* the analysis did not produce a context: the call failed on every attempt,
\* or the text is empty, holds no brace-delimited object, or holds one that
\* does not decode or lacks a required key
AnalysisFailed(text) ==
    \/ Blank(text)
    \/ Search(text) = <<>>
    \/ ~Decodes(Search(text))
    \/ ~({"surface_type", "region_description"} \subseteq DOMAIN Loads(Search(text)))

C7_State ==
    /\ (pc = "compose" /\ AnalysisFailed(context_text)) => context = DefaultContext
    /\ pc \in {"analyze", "analyze_backoff", "compose", "gen_loop", "stream"}
         => response = NoResponse
    /\ \A i \in Idx("synth") :
         log[i].n = 1 => log[i].arg = PrimaryPrompt(context, body.prompt)

C7_Step ==
    /\ pc \in {"analyze", "analyze_backoff"}
         => pc' \in {"analyze", "analyze_backoff", "compose"}
    /\ pc = "compose" => (pc' = "gen_loop" /\ context' = context)
    /\ (pc = "gen_loop" /\ generation_attempts = 0) =>
         /\ pc' = "stream"
         /\ context' = context
         /\ log' = Append(log, Ev("synth", 1, PrimaryPrompt(context, body.prompt)))

\* C7: whatever the analysis does, the handler does not answer during it: a
\* failed analysis leaves the default context, and the next steps are the
\* composition of the primary prompt and synthesis attempt 1 sending the
\* primary prompt built from the context.
C7_AnalysisNeverFails == [](C7_State) /\ [][C7_Step]_vars

C7_Witness ==
    /\ Idx("analyze") # {}
    /\ \A i \in Idx("analyze") : log[i].arg = <<"failed">>
    /\ context = DefaultContext
    /\ \E i \in Idx("synth") :
         /\ log[i].n = 1
         /\ log[i].arg = PrimaryPrompt(DefaultContext, body.prompt)

\* C8: a request without tile source, or without home source, is answered
\* with HTTP 400 before any call to a collaborator.
C8_MissingSourceIs400 ==
    (NoTileSource \/ NoHomeSource) =>
        /\ log = <<>>
        /\ pc \in {"validate", "done"}
        /\ pc = "done" => (response.kind = "http" /\ response.status = 400)
        /\ tile_bytes = None
        /\ home_bytes = None

C8_Witness ==
    /\ NoTileSource
    /\ ~NoHomeSource
    /\ pc = "done"
    /\ response.status = 400

OwnedIds(table) == { r.id : r \in { t \in table : t.user_id = Caller } }

\* C9: a missing source is answered with HTTP 400 and a lookup of an id that
\* is not a row of the caller with HTTP 404, never with an envelope, and the
\* lookup that found nothing is the last call made.
C9_PreflightTypedErrors ==
    /\ ((NoTileSource \/ NoHomeSource) /\ pc = "done")
         => (response.kind = "http" /\ response.status = 400)
    /\ \A i \in Idx("lookup_tile") :
         (log[i].n \notin OwnedIds(TilesTable) /\ log[i].arg # <<"raised">>)
            => log[i].arg = <<"empty">>
    /\ \A i \in Idx("lookup_home") :
         (log[i].n \notin OwnedIds(HomesTable) /\ log[i].arg # <<"raised">>)
            => log[i].arg = <<"empty">>
    /\ \A i \in Idx("lookup_tile") \cup Idx("lookup_home") :
         log[i].arg = <<"empty">> =>
            /\ i = Len(log)
            /\ pc = "done"
            /\ response.kind = "http"
            /\ response.status = 404

C9_Witness ==
    /\ pc = "done"
    /\ body.tile_id = 2
    /\ response.kind = "http"
    /\ response.status = 404

FailedDownload(e) ==
    \/ e.arg \in { <<"timeout">>, <<"request_error">> }
    \/ e.arg = <<"status">> /\ e.n \notin 200..299

\* C10: a download that fails (status outside 2xx, timeout, transport error)
\* is the last call made and is answered with an HTTP 4xx error; each image
\* is requested at most once; analysis and synthesis calls are made only
\* after both downloads returned status 200.
C10_DownloadFailureAborts ==
    /\ \A i \in Idx("download_tile") \cup Idx("download_home") :
         FailedDownload(log[i]) =>
            /\ i = Len(log)
            /\ pc = "done"
            /\ response.kind = "http"
            /\ response.status \in 400..499
    /\ Cardinality(Idx("download_tile")) <= 1
    /\ Cardinality(Idx("download_home")) <= 1
    /\ \A i \in Idx("analyze") \cup Idx("synth") :
         /\ \E j \in 1..(i - 1) : log[j] = Ev("download_tile", 200, <<"status">>)
         /\ \E k \in 1..(i - 1) : log[k] = Ev("download_home", 200, <<"status">>)

C10_Witness ==
    /\ pc = "done"
    /\ Idx("download_tile") # {}
    /\ log[Len(log)] = Ev("download_home", 0, <<"timeout">>)
    /\ response.status = 400

\* the handler ended on one of its generic failure paths: the last synthesis
\* attempt failed, or an exception reached the catch-all
GenerationFailurePath ==
    /\ pc = "done"
    /\ log # <<>>
    /\ log[Len(log)].ev = "attempt_failed"

CatchAllPath ==
    /\ pc = "done"
    /\ log # <<>>
    /\ log[Len(log)].arg \in { <<"raised">>, <<"other_error">> }

\* C14: on the generic failure paths the answer is a success:false envelope
\* (status 200, not an HTTP error) whose error text is one fixed message per
\* path, whatever text the exception carried: no exception text occurs in it.
C14_GenericFailureIsFixed ==
    /\ GenerationFailurePath => response = Failure(<<MsgGenerationFailed>>)
    /\ CatchAllPath => response = Failure(<<MsgUnexpected>>)
    /\ (GenerationFailurePath \/ CatchAllPath) =>
         /\ response.kind = "json"
         /\ ~response.success
         /\ \A k \in DOMAIN response.error : response.error[k] \notin ErrTexts

C14_Witness ==
    /\ pc = "done"
    /\ log # <<>>
    /\ log[Len(log)] = Ev("attempt_failed", 2, <<"call raised">>)
    /\ ~response.success

\* the pipeline stage an event of the log belongs to; 0 for the catalog lookups
Stage(e) ==
    CASE e.ev = "download_tile" -> 1
      [] e.ev = "download_home" -> 2
      [] e.ev = "init_client" -> 2
      [] e.ev = "analyze" -> 3
      [] e.ev = "sleep" /\ e.arg = <<"analysis">> -> 3
      [] e.ev \in {"synth", "payload", "save_local", "attempt_failed"} -> 5
      [] e.ev = "sleep" /\ e.arg = <<"generation">> -> 5
      [] e.ev = "upload" -> 6
      [] e.ev = "error" /\ e.arg = <<"upload">> -> 6
      [] e.ev = "public_url" -> 7
      [] e.ev = "error" /\ e.arg = <<"public_url">> -> 7
      [] e.ev = "insert" -> 8
      [] e.ev = "error" -> 8
      [] OTHER -> 0

\* the last stage that can have acted when the handler is at position p;
\* stage 4 is the composition of the primary prompt
Reached(p) ==
    CASE p \in {"validate", "resolve_tile", "resolve_home", "check_api_key",
                "download_tile"} -> 0
      [] p = "download_home" -> 1
      [] p = "init_client" -> 2
      [] p \in {"analyze", "analyze_backoff", "compose"} -> 3
      [] p \in {"gen_loop", "stream", "gen_except", "verify", "upload"} -> 5
      [] p = "public_url" -> 6
      [] p = "insert" -> 7
      [] OTHER -> 8

\* C16: the calls of a request are made in the order of the stages (tile
\* download, home download, analysis, composition, synthesis, upload, public
\* URL, insert), none before the handler reached its stage, and a stage acts
\* only when the stage before it has finished.
C16_StagesInOrder ==
    /\ \A i \in 1..(Len(log) - 1) : Stage(log[i]) <= Stage(log[i + 1])
    /\ \A i \in DOMAIN log : Stage(log[i]) <= Reached(pc)
    /\ Idx("download_home") # {} =>
         Ev("download_tile", 200, <<"status">>) \in { log[i] : i \in DOMAIN log }
    /\ Idx("analyze") # {} =>
         Ev("download_home", 200, <<"status">>) \in { log[i] : i \in DOMAIN log }
    /\ generation_prompt # <<>> => Idx("analyze") # {}
    /\ pc = "compose" => generation_prompt = <<>>
    /\ Idx("synth") # {} => generation_prompt # <<>>
    /\ Idx("upload") # {} => Idx("save_local") # {}
    /\ Idx("public_url") # {} => Idx("upload") # {}
    /\ Idx("insert") # {} => Idx("public_url") # {}

C16_Witness ==
    /\ pc = "done"
    /\ response.success
    /\ Idx("insert") # {}
    /\ Idx("download_tile") # {}

\* C17: the analyzer makes at most two calls; a failed first call is followed
\* by a sleep of 2 * 2^(k-1) seconds and then by the next call; the failed
\* last call is followed by no sleep; a call that returned a response is the
\* last call.
C17_AnalyzerRetries ==
    /\ Cardinality(Idx("analyze")) <= 2
    /\ \A i \in Idx("analyze") :
         /\ log[i].n \in 1..2
         /\ (log[i].arg = <<"failed">> /\ log[i].n < 2) =>
              /\ i = Len(log) => pc = "analyze_backoff"
              /\ i + 1 \in DOMAIN log =>
                   log[i + 1] = Ev("sleep", 2 * (2 ^ (log[i].n - 1)), <<"analysis">>)
              /\ i + 2 \in DOMAIN log =>
                   (log[i + 2].ev = "analyze" /\ log[i + 2].n = log[i].n + 1)
         /\ (log[i].arg = <<"failed">> /\ log[i].n = 2) =>
              /\ i = Len(log) => pc \in {"compose", "gen_loop"}
              /\ i + 1 \in DOMAIN log => log[i + 1].ev = "synth"
         /\ log[i].arg = <<"response">> =>
              /\ \A j \in Idx("analyze") : j <= i
              /\ i = Len(log) => pc \in {"compose", "gen_loop"}
              /\ i + 1 \in DOMAIN log => log[i + 1].ev = "synth"
    /\ \A i \in Idx("sleep") :
         log[i].arg = <<"analysis">> =>
            /\ i > 1
            /\ log[i - 1] = Ev("analyze", 1, <<"failed">>)

C17_Witness ==
    \E i \in Idx("analyze") :
        /\ log[i] = Ev("analyze", 1, <<"failed">>)
        /\ i + 3 \in DOMAIN log
        /\ log[i + 1] = Ev("sleep", 2, <<"analysis">>)
        /\ log[i + 2] = Ev("analyze", 2, <<"failed">>)
        /\ log[i + 3].ev = "synth"

C18_State == Idx("analyze") = {} => context = DefaultContext

C18_Step ==
    context' # context =>
        /\ pc = "analyze"
        /\ context = DefaultContext
        /\ pc' = "compose"
        /\ log' = Append(log, Ev("analyze", attempt + 1, <<"response">>))

\* C18: the context holds the default values until the analysis; it changes
\* only in the analysis step that handles a response, from the default
\* values, after which the analysis is over; no later step writes it.
C18_ContextWrittenOnce == [](C18_State) /\ [][C18_Step]_vars

C18_Witness ==
    /\ context # DefaultContext
    /\ pc = "done"
    /\ response.success
    /\ Cardinality(Idx("synth")) = 2

C15_State ==
    answer.op = "generate_image" =>
        \A row \in answer.data :
            /\ row.tile_id = NoId
            /\ row \in generated_images

C15_Step ==
    \A id \in ImageKeys :
        LET before == { r \in generated_images : r.id = id }
            after == { r \in generated_images' : r.id = id }
        IN  \A a \in after :
                (a.tile_id # NoId /\ a \notin before) =>
                    /\ before # {}
                    /\ answer'.op = "update_generated_image"
                    /\ answer'.status = 200
                    /\ answer'.id = id
                    /\ answer'.user = a.user_id
                    /\ answer'.arg[2] = a.tile_id

\* C15: the row inserted by generate_image has no tile (tile_id null),
\* whatever tile_id the request carried, and a row gets a tile only in a
\* successful PATCH /api/generated/{image_id} of that row, by its owner,
\* whose body carries that tile_id.
C15_NoTileAtCreation == [](C15_State) /\ [][C15_Step]_vars

C15_Witness ==
    /\ answer.op = "generate_image"
    /\ answer.arg # NoId
    /\ \E row \in generated_images : row.id = answer.id /\ row.tile_id = NoId

\* the owner of the row of a table with the given id; None when there is none
OwnerOf(table, id) ==
    IF \E r \in table : r.id = id
      THEN (CHOOSE r \in table : r.id = id).user_id
      ELSE None

\* the table an operation addresses by the id in its path
Addressed(op) ==
    CASE op \in {"get_tile_by_id", "update_tile", "delete_tile"} -> tiles
      [] op \in {"get_home_by_id", "delete_home"} -> homes
      [] op = "get_chat_with_images" -> chats
      [] op \in {"update_generated_image", "delete_generated_image"} ->
            generated_images
      [] OTHER -> {}

C20_State ==
    LET u == answer.user IN
    /\ (answer.status # 500 /\ OwnerOf(Addressed(answer.op), answer.id) \notin {None, u})
          => answer.status = 404
    /\ \A r \in answer.data :
          /\ "user_id" \in DOMAIN r => r.user_id = u
          /\ ("tile_name" \in DOMAIN r /\ r.tile_name # None)
                => OwnerOf(tiles, r.tile_id) = u
          /\ ("homes" \in DOMAIN r /\ r.homes # None)
                => OwnerOf(homes, r.home_id) = u

C20_Step ==
    LET u == answer'.user IN
    /\ \A r \in tiles : r.user_id # u => r \in tiles'
    /\ \A r \in homes : r.user_id # u => r \in homes'
    /\ \A r \in chats : r.user_id # u => r \in chats'
    /\ \A r \in generated_images : r.user_id # u => r \in generated_images'

\* C20: a call addressing a row of another user answers 404; every row a
\* call returns, the embedded tile and home of a returned image included,
\* belongs to the caller; no call changes or deletes a row of another user.
C20_OwnerScoped == [](C20_State) /\ [][C20_Step]_vars

\* C11: whenever a request is in a backoff delay and another request is
\* suspended at an await, the loop is free to resume that other request: no
\* coroutine holds the thread.
C11_BackoffYields ==
    \A r \in Requests, q \in Requests :
        (r # q /\ tasks[r].pc \in Sleeping /\ tasks[q].pc \in Suspended)
            => running = 0

\* C12: a cancelled request has left no local file, no storage object and no
\* row; in particular no storage object without its row.
C12_NothingPersisted ==
    \A r \in Requests :
        tasks[r].pc = "cancelled" =>
            /\ ~tasks[r].artifact
            /\ ~tasks[r].uploaded
            /\ \A i \in DOMAIN rows : rows[i].request # r

\* C13: the bytes a request uploads, and the object its row points to, are
\* the payload of its own synthesis attempt.
C13_RequestsIndependent ==
    \A r \in Requests :
        /\ tasks[r].uploaded => tasks[r].file_data = PayloadOf(r)
        /\ \A i \in DOMAIN rows :
              rows[i].request = r =>
                 [name |-> rows[i].image_url, data |-> PayloadOf(r)] \in storage

\* C21: a call of _get_jwks made no later than 600 seconds after a
\* successful fetch returns the cached keys without contacting the endpoint
\* and leaves the cache as it is; a later call, or a call with nothing
\* fetched yet, contacts the endpoint; a failed fetch leaves the cache as it
\* is.
C21_CachedTenMinutes ==
    jwks_call.result # "none" =>
        LET before == jwks_call.before
            fetched_before == before.keys # None
            fresh == fetched_before /\ jwks_call.at <= before.timestamp + JwksRefresh
        IN  /\ fresh => /\ ~jwks_call.fetched
                        /\ jwks_call.result = before.keys
                        /\ jwks_cache = before
            /\ ~fresh => jwks_call.fetched
            /\ jwks_call.result = "raised" => jwks_cache = before

C22_Step ==
    answer'.op = "delete_generated_image" =>
        LET u == answer'.user
            image_id == answer'.id
            owned == Select(generated_images, image_id, u)
            objects == { o \in storage :
                           \E r \in owned : RemovalTarget(r.image_url) = <<"generated", o.name>> }
        IN  /\ image_id = 0 =>
                  /\ answer'.status = 500
                  /\ generated_images' = generated_images
                  /\ storage' = storage
            /\ (image_id # 0 /\ owned = {}) =>
                  /\ answer'.status = 404
                  /\ generated_images' = generated_images
                  /\ storage' = storage
            /\ (image_id # 0 /\ owned # {}) =>
                  /\ answer'.status = 200
                  /\ generated_images' = generated_images \ owned
                  /\ storage' \in {storage, storage \ objects}
                  /\ answer'.arg = "remove_failed" => storage' = storage
                  /\ answer'.arg = "removed" => storage' = storage \ objects

\* C22: DELETE /api/generated/{image_id} of a row the caller owns deletes
\* the row and answers 200, whether the removal of the storage object
\* succeeded (the object is gone) or failed (the object stays); a failure
\* before the row is deleted answers 500 and leaves the bucket as it is;
\* for a row that is missing or owned by another user it answers 404 and
\* deletes neither row nor object.
C22_DeleteRowThenObject == [][C22_Step]_vars

C22_Witness ==
    /\ answer.op = "delete_generated_image"
    /\ answer.status = 200
    /\ answer.arg = "remove_failed"
    /\ \A r \in generated_images : r.id # answer.id
    /\ \E o \in storage : o.name = answer.id

\* the positions in log of the calls of generate_content (analysis) and of
\* generate_content_stream (synthesis)
AnalysisCalls == { i \in DOMAIN log : log[i].ev = "analyze" }
SynthesisCalls == { i \in DOMAIN log : log[i].ev = "synth" }

\* C23: a request makes at most 2 analysis calls and at most 2 synthesis
\* calls, hence at most 4 calls of the generation service, and every
\* analysis call comes before every synthesis call.
C23_AtMostFourCalls ==
    /\ Cardinality(AnalysisCalls) <= max_retries
    /\ Cardinality(SynthesisCalls) <= max_generation_attempts
    /\ Cardinality(AnalysisCalls \cup SynthesisCalls) <= 4
    /\ \A a \in AnalysisCalls, g \in SynthesisCalls : a < g

C23_Witness ==
    /\ Cardinality(AnalysisCalls) = 2
    /\ Cardinality(SynthesisCalls) = 2
    /\ pc = "done"

\* C24: every request ends, and when it has ended it has answered exactly
\* once, with an HTTP error or with a JSON envelope: the answer is set in
\* the step that ends the request and never changes.
C24_Terminates ==
    /\ <>(pc = "done")
    /\ [](pc = "done" <=> response # NoResponse)
    /\ [](response # NoResponse => response.kind \in {"http", "json"})
    /\ [][response # NoResponse => response' = response]_vars

C24_Witness ==
    /\ pc = "done"
    /\ attempt = max_retries - 1
    /\ generation_attempts = max_generation_attempts
    /\ response.kind = "json"
    /\ ~response.success

\* C25: an answer with an HTTP error status is given before the analysis
\* starts and before both images are downloaded: when the handler answers
\* after the download of the home image, whatever failed, the answer is a
\* JSON envelope, with success false unless the row was inserted.
C25_NoHttpErrorAfterDownloads ==
    pc = "done" =>
        /\ response.kind = "http" =>
              /\ home_bytes = None
              /\ AnalysisCalls = {}
              /\ \A i \in DOMAIN log : log[i].ev # "init_client"
              /\ response.status \in {400, 404, 500}
              /\ response.status = 500 => response.error = <<MsgNoApiKey>>
        /\ home_bytes # None =>
              /\ response.kind = "json"
              /\ response.success <=> rows # <<>> /\ response.image # <<>>

C25_Witness ==
    /\ pc = "done"
    /\ home_bytes # None
    /\ response = Unexpected
    /\ \E i \in DOMAIN log : log[i].ev = "init_client"

\* the position in log of the last synthesis call
LastSynthesis == CHOOSE i \in SynthesisCalls : \A j \in SynthesisCalls : j <= i

\* C26: when the attempt loop has been left for the persistence phase, the
\* last attempt made received a payload and saved it: image_saved is true,
\* data_buffer is that payload, and generated/<file_name> holds it; the
\* answer "Image generation failed to produce output" is never given.
C26_PersistencePrecondition ==
    /\ pc \in {"verify", "upload"} =>
          /\ image_saved
          /\ ~FalsyStr(data_buffer)
          /\ SynthesisCalls # {}
          /\ log[LastSynthesis].n = generation_attempts
          /\ \E i \in DOMAIN log :
                /\ i > LastSynthesis
                /\ log[i] = Ev("payload", generation_attempts, <<data_buffer>>)
                /\ i < Len(log)
                /\ log[i + 1] = Ev("save_local", file_name, <<>>)
          /\ [name |-> file_name, data |-> data_buffer] \in files
    /\ response.error # <<MsgNoOutput>>

C26_Witness ==
    /\ pc = "upload"
    /\ generation_attempts = 2
    /\ \E i \in DOMAIN log : log[i] = Ev("attempt_failed", 1, <<"save failed">>)

\* C27: the row inserted by generate_image is never attached to a home or
\* to a chat of another user.
C27_LinksOwned ==
    answer.op = "generate_image" =>
        \A row \in answer.data :
            /\ row.home_id # NoId => OwnerOf(homes, row.home_id) # Other
            /\ row.chat_id # NoId => OwnerOf(chats, row.chat_id) # Other

TileLookups == { i \in DOMAIN log : log[i].ev = "lookup_tile" }
HomeLookups == { i \in DOMAIN log : log[i].ev = "lookup_home" }

\* the handler has passed step 0.6 for the home, for the tile
HomeResolved ==
    \/ pc \in {"check_api_key", "download_tile"}
    \/ response.error = <<MsgNoApiKey>>
    \/ \E i \in DOMAIN log : log[i].ev = "download_tile"
TileResolved == pc = "resolve_home" \/ HomeLookups # {} \/ HomeResolved

\* C28: the catalog is queried for the tile exactly when the request has no
\* tile_url and has a tile_id, and likewise for the home; with a URL given
\* the id is not looked up, so an id that is missing from the catalog or
\* belongs to another user gives no 404.
C28_UrlBeforeId ==
    /\ TileLookups # {} => body.tile_url = None /\ body.tile_id # NoId
    /\ HomeLookups # {} => body.home_url = None /\ body.home_id # NoId
    /\ (TileResolved /\ body.tile_url = None /\ body.tile_id # NoId)
          => Cardinality(TileLookups) = 1
    /\ (HomeResolved /\ body.home_url = None /\ body.home_id # NoId)
          => Cardinality(HomeLookups) = 1
    /\ response = TileNotFound =>
          /\ body.tile_url = None
          /\ \A r \in TilesTable : r.id = body.tile_id => r.user_id # Caller
    /\ response = HomeNotFound =>
          /\ body.home_url = None
          /\ \A r \in HomesTable : r.id = body.home_id => r.user_id # Caller

C28_Witness ==
    /\ pc = "done"
    /\ response.success
    /\ body.tile_url # None
    /\ body.tile_id = 2
    /\ body.home_url = None
    /\ HomeLookups # {}

\* the texts the handler sent to the generation service
PromptsSent == { log[i].arg : i \in SynthesisCalls }

Carries(chunk) ==
    /\ chunk.ncand > 0
    /\ chunk.content
    /\ Len(chunk.parts) > 0
    /\ chunk.parts[1] # NoInline
    /\ chunk.parts[1] # ""

C30_State ==
    /\ \A chunk \in Chunks :
          InlineData(chunk) = IF Carries(chunk) THEN chunk.parts[1] ELSE None
    /\ pc = "stream" =>
          /\ \A k \in DOMAIN consumed : consumed[k] = None
          /\ log[Len(log)].ev = "synth"
    /\ \A i \in DOMAIN log :
          (log[i].ev = "attempt_failed" /\ log[i].arg = <<"no image data">>) =>
              /\ i > 1
              /\ log[i - 1] = Ev("synth", log[i].n, log[i - 1].arg)

C30_Step ==
    (pc = "stream" /\ chunk_count' = chunk_count /\ pc' # "stream") =>
        /\ pc' = "gen_except"
        /\ Len(log') = Len(log) + 1
        /\ log'[Len(log')].ev = "attempt_failed"
        /\ log'[Len(log')].n = generation_attempts

\* C30: a chunk yields a payload exactly when the first part of its first
\* candidate has non-empty inline data, and the payload is that data; any
\* other chunk is skipped and the attempt goes on with the next chunk; a
\* stream that ends after skipped chunks only makes the attempt fail.
C30_FirstPartOnly == [](C30_State) /\ [][C30_Step]_vars

C30_Witness ==
    /\ pc = "gen_except"
    /\ Len(consumed) >= 2
    /\ \A k \in DOMAIN consumed : consumed[k] = None
    /\ log[Len(log)] = Ev("attempt_failed", generation_attempts, <<"no image data">>)

====
